---------------------------- MODULE Spec2Model ----------------------------
(***************************************************************************)
(* A model of the virtual FIDO/U2F authenticator:                          *)
(*   - usb/usb_device.go: the USB device that routes control, output and   *)
(*     input transfers (USBDevice.HandleMessage and its handlers);         *)
(*   - virtual_fido/u2f.go: the U2F server (decodeU2FMessage,              *)
(*     handleU2FMessage, handleU2FRegister, handleU2FAuthenticate and the  *)
(*     key-handle sealing).                                                *)
(* Byte strings are sequences of numbers 0..255.  A Go []byte that may be  *)
(* nil is a record [nil, bytes].                                           *)
(***************************************************************************)
EXTENDS Integers, Sequences, FiniteSets, TLC

VARIABLES
  panicked,     \* a goroutine panicked: the process is gone
  \* the U2F server and its client
  counter,      \* the client's authentication counter
  keyCount,     \* how many private keys the client has generated
  handled,      \* how many U2F messages handleU2FMessage has been called with
  last,         \* the last call of handleU2FMessage: its input and what it did
  issued,       \* the key handles the relying parties hold, with their application
  signedCounters, \* the counters in the signed AUTHENTICATE responses, in order
  decoded,      \* the last call of decodeU2FMessage alone: its input and result
  \* the USB device and its delegate
  urbs,         \* the transfers submitted so far, in order; a transfer's id is its index
  outputLock,   \* device.outputLock: the id of the handler holding it, or NoHolder
  waiting,      \* delegate: the ids whose GetResponse is in progress
  killed,       \* delegate: the ids whose GetResponse was cancelled and has not returned
  responses,    \* delegate: the responses no GetResponse has taken yet
  removed,      \* the ids for which RemoveWaitingRequest returned true
  lockOrder,    \* the ids in the order in which their handlers took outputLock
  finishOrder   \* the output transfers' ids in the order of their onFinish calls

u2fVars == << counter, keyCount, handled, last, issued, signedCounters, decoded >>

usbVars ==
  << urbs, outputLock, waiting, killed, responses, removed, lockOrder, finishOrder >>

vars == << panicked, u2fVars, usbVars >>

-----------------------------------------------------------------------------
(* Byte-string helpers (Go slices, copy, append).                          *)

Min(a, b) == IF a <= b THEN a ELSE b

Zeros(n) == [i \in 1..n |-> 0]

Repeat(b, n) == [i \in 1..n |-> b]

\* A nil slice and a non-nil slice.
NilBytes == [nil |-> TRUE, bytes |-> <<>>]

Some(b) == [nil |-> FALSE, bytes |-> b]

\* Go's copy(dst, src): the first min(len(dst), len(src)) bytes of dst are
\* overwritten, the rest of dst is kept.
copy_clearsRest(dst, src) ==
  [i \in 1..Len(dst) |-> IF i <= Len(src) THEN src[i] ELSE 0]

copy(dst, src) ==
  [i \in 1..Len(dst) |-> IF i <= Len(src) THEN src[i] ELSE dst[i]]

\* util.Flatten / util.Concat: concatenation of a sequence of byte strings.
RECURSIVE Flatten(_)
Flatten(parts) ==
  IF parts = <<>> THEN <<>> ELSE Head(parts) \o Flatten(Tail(parts))

\* The sum of b[lo..hi] modulo 256.
RECURSIVE SumRange(_, _, _)
SumRange(b, lo, hi) ==
  IF lo > hi THEN 0
  ELSE IF lo = hi THEN b[lo] % 256
  ELSE LET mid == (lo + hi) \div 2
       IN  (SumRange(b, lo, mid) + SumRange(b, mid + 1, hi)) % 256

SumBytes(b) == SumRange(b, 1, Len(b))

\* util.ToBE of a uint16 and of a uint32.
ToBE16(v) == << (v \div 256) % 256, v % 256 >>

ToBE32(v) ==
  << (v \div 16777216) % 256, (v \div 65536) % 256, (v \div 256) % 256, v % 256 >>

\* util.ToLE of a uint16.
ToLE16(v) == << v % 256, (v \div 256) % 256 >>

-----------------------------------------------------------------------------
(* CBOR (github.com/fxamacker/cbor): the encoding of a struct of two byte  *)
(* strings under the integer keys 1 and 2, as KeyHandle declares them.     *)

\* The head of a CBOR byte string of length n.
cborBstrHead(n) ==
  IF n < 24 THEN << 64 + n >>
  ELSE IF n < 256 THEN << 88, n >>
  ELSE << 89, (n \div 256) % 256, n % 256 >>

cborBstr(b) == cborBstrHead(Len(b)) \o b

\* util.MarshalCBOR of a struct {1: f1, 2: f2}.
MarshalCBOR(f1, f2) == << 162, 1 >> \o cborBstr(f1) \o << 2 >> \o cborBstr(f2)

\* Reads one byte string at position pos: [ok, bytes, next].
cborReadBstr(b, pos) ==
  LET bad == [ok |-> FALSE, bytes |-> <<>>, next |-> pos]
      take(from, n) ==
        IF from + n - 1 > Len(b) THEN bad
        ELSE [ok |-> TRUE, bytes |-> SubSeq(b, from, from + n - 1), next |-> from + n]
  IN  IF pos > Len(b) THEN bad
      ELSE IF b[pos] >= 64 /\ b[pos] < 88 THEN take(pos + 1, b[pos] - 64)
      ELSE IF b[pos] = 88 /\ pos + 1 <= Len(b) THEN take(pos + 2, b[pos + 1])
      ELSE IF b[pos] = 89 /\ pos + 2 <= Len(b)
           THEN take(pos + 3, b[pos + 1] * 256 + b[pos + 2])
      ELSE bad

\* Reads n map entries from position pos into acc = [err, f1, f2].
RECURSIVE cborReadEntries(_, _, _, _)
cborReadEntries(b, pos, n, acc) ==
  IF n = 0
  THEN IF pos = Len(b) + 1 THEN acc ELSE [acc EXCEPT !.err = TRUE]
  ELSE IF pos > Len(b) \/ b[pos] \notin {1, 2}
  THEN [acc EXCEPT !.err = TRUE]
  ELSE LET v == cborReadBstr(b, pos + 1)
       IN  IF ~v.ok THEN [acc EXCEPT !.err = TRUE]
           ELSE cborReadEntries(b, v.next, n - 1,
                  IF b[pos] = 1 THEN [acc EXCEPT !.f1 = Some(v.bytes)]
                                ELSE [acc EXCEPT !.f2 = Some(v.bytes)])

\* cbor.Unmarshal into a struct of two byte strings: err on malformed input,
\* a field the map leaves out stays nil.
cborUnmarshal(b) ==
  LET empty == [err |-> FALSE, f1 |-> NilBytes, f2 |-> NilBytes]
  IN  IF Len(b) = 0 \/ b[1] \notin {160, 161, 162}
      THEN [empty EXCEPT !.err = TRUE]
      ELSE cborReadEntries(b, 2, b[1] - 160, empty)

-----------------------------------------------------------------------------
(* External libraries and the client port, modelled symbolically.  A private *)
(* key is its number k; its encodings and signatures carry k.                *)

\* x509.MarshalECPrivateKey: the SEC1 DER encoding (121 bytes for P-256).
MarshalECPrivateKey(k) == << 48, 119, k >> \o Zeros(118)

\* x509.ParseECPrivateKey: [err, key].
ParseECPrivateKey(b) ==
  IF Len(b) = 121 /\ b[1] = 48 /\ b[2] = 119
  THEN [err |-> FALSE, key |-> b[3]]
  ELSE [err |-> TRUE, key |-> 0]

\* elliptic.Marshal: the uncompressed point 04 || X || Y (65 bytes).
ellipticMarshal(k) == << 4 >> \o Repeat(k, 64)

\* sign(privateKey, data): an ECDSA signature, a DER sequence that depends on
\* the key and on the data.
sign(k, data) == << 48, 2, k, SumBytes(data) >>

\* client.CreateAttestationCertificiate(privateKey): X.509 DER bytes.
CreateAttestationCertificiate(k) == << 48, 130, k >>

\* client.SealingEncryptionKey(): stable for the device's lifetime.
SealingEncryptionKey == 7

\* A sealing key that is not this device's.
ForeignSealingKey == 9

\* The authenticated encryption under the sealing key: the ciphertext keeps
\* the plaintext's length, a 16-byte tag over key and ciphertext follows.
encrypt(key, pt) == [i \in 1..Len(pt) |-> (pt[i] + key) % 256]

decrypt(key, ct) == [i \in 1..Len(ct) |-> (ct[i] + 256 - key) % 256]

authTag(key, iv, ct) == Repeat((SumBytes(ct) + SumBytes(iv) + key) % 256, 16)

\* seal(key, data): encryptedBox{Data, IV} with a 12-byte nonce.
seal(key, nonce, data) ==
  LET iv == Repeat(nonce, 12)
      ct == encrypt(key, data)
  IN  [Data |-> ct \o authTag(key, iv, ct), IV |-> iv]

\* open(key, box) returns the plaintext and no error value: a box that fails
\* authentication yields no plaintext.
open(key, box) ==
  LET n == Len(box.Data) - 16
  IN  IF n < 0 THEN <<>>
      ELSE LET ct == SubSeq(box.Data, 1, n)
               tag == SubSeq(box.Data, n + 1, n + 16)
           IN  IF tag = authTag(key, box.IV, ct) THEN decrypt(key, ct) ELSE <<>>

-----------------------------------------------------------------------------
(* virtual_fido/u2f.go                                                       *)

u2f_COMMAND_REGISTER == 1
u2f_COMMAND_AUTHENTICATE == 2
u2f_COMMAND_VERSION == 3

u2f_SW_NO_ERROR == 36864
u2f_SW_CONDITIONS_NOT_SATISFIED == 27013
u2f_SW_WRONG_DATA == 27264
u2f_SW_WRONG_LENGTH == 26368

u2f_AUTH_CONTROL_CHECK_ONLY == 7
u2f_AUTH_CONTROL_ENFORCE_USER_PRESENCE_AND_SIGN == 3
u2f_AUTH_CONTROL_SIGN == 8

\* KeyHandle{PrivateKey, ApplicationID}
KeyHandle(privateKey, applicationID) ==
  [PrivateKey |-> privateKey, ApplicationID |-> applicationID]

\* sealKeyHandle with the two fields of the key handle exchanged.
sealKeyHandle_fieldsExchanged(key, nonce, keyHandle) ==
  LET box == seal(key, nonce,
                  MarshalCBOR(keyHandle.ApplicationID, keyHandle.PrivateKey))
  IN  MarshalCBOR(box.Data, box.IV)

\* sealKeyHandle: the CBOR of the box that seals the CBOR of the key handle.
sealKeyHandle(key, nonce, keyHandle) ==
  LET box == seal(key, nonce,
                  MarshalCBOR(keyHandle.PrivateKey, keyHandle.ApplicationID))
  IN  MarshalCBOR(box.Data, box.IV)

\* openKeyHandle: [err, PrivateKey, ApplicationID]; the fields may be nil.
openKeyHandle(key, boxBytes) ==
  LET box == cborUnmarshal(boxBytes)
      failed == [err |-> TRUE, PrivateKey |-> NilBytes, ApplicationID |-> NilBytes]
  IN  IF box.err THEN failed
      ELSE LET data == open(key, [Data |-> box.f1.bytes, IV |-> box.f2.bytes])
               kh == cborUnmarshal(data)
           IN  IF kh.err THEN failed
               ELSE [err |-> FALSE, PrivateKey |-> kh.f1, ApplicationID |-> kh.f2]


\* util.Read(buffer, n) from position pos: [panic, bytes, next].  Reading
\* from an exhausted buffer is an error (util.CheckErr panics); a short read
\* leaves the rest of the result zero.
utilRead(b, pos, n) ==
  LET avail == Len(b) - pos + 1
  IN  IF n = 0 THEN [panic |-> FALSE, bytes |-> <<>>, next |-> pos]
      ELSE IF avail <= 0 THEN [panic |-> TRUE, bytes |-> <<>>, next |-> pos]
      ELSE IF avail < n
           THEN [panic |-> FALSE, bytes |-> SubSeq(b, pos, Len(b)) \o Zeros(n - avail),
                 next |-> Len(b) + 1]
      ELSE [panic |-> FALSE, bytes |-> SubSeq(b, pos, pos + n - 1), next |-> pos + n]

\* decodeU2FMessage without the check of the byte that follows the header.
decodeU2FMessage_anyMarker(messageBytes) ==
  LET n == Len(messageBytes)
      hdr == [Cla |-> messageBytes[1], Command |-> messageBytes[2],
              Param1 |-> messageBytes[3], Param2 |-> messageBytes[4]]
      noHdr == [Cla |-> 0, Command |-> 0, Param1 |-> 0, Param2 |-> 0]
      bad == [panic |-> TRUE, header |-> noHdr, request |-> <<>>, responseLength |-> 0]
      ok(h, req, le) ==
        [panic |-> FALSE, header |-> h, request |-> req, responseLength |-> le]
  IN  IF n < 4 THEN bad
      ELSE IF n = 4 THEN ok(hdr, <<>>, 0)
      ELSE IF n < 7 THEN [bad EXCEPT !.header = hdr]
      ELSE LET length == messageBytes[6] * 256 + messageBytes[7]
           IN  IF n = 7 THEN ok(hdr, <<>>, length)
               ELSE LET r == utilRead(messageBytes, 8, length)
                    IN  IF r.panic THEN [bad EXCEPT !.header = hdr]
                        ELSE IF r.next > n THEN ok(hdr, r.bytes, 0)
                        ELSE IF n - r.next + 1 < 2 THEN [bad EXCEPT !.header = hdr]
                        ELSE ok(hdr, r.bytes,
                                messageBytes[r.next] * 256 + messageBytes[r.next + 1])

\* decodeU2FMessage: [panic, header, request, responseLength].
decodeU2FMessage(messageBytes) ==
  LET n == Len(messageBytes)
      hdr == [Cla |-> messageBytes[1], Command |-> messageBytes[2],
              Param1 |-> messageBytes[3], Param2 |-> messageBytes[4]]
      noHdr == [Cla |-> 0, Command |-> 0, Param1 |-> 0, Param2 |-> 0]
      bad == [panic |-> TRUE, header |-> noHdr, request |-> <<>>, responseLength |-> 0]
      ok(h, req, le) ==
        [panic |-> FALSE, header |-> h, request |-> req, responseLength |-> le]
  IN  IF n < 4 THEN bad
      ELSE IF n = 4 THEN ok(hdr, <<>>, 0)
      ELSE IF messageBytes[5] # 0 THEN [bad EXCEPT !.header = hdr]
      ELSE IF n < 7 THEN [bad EXCEPT !.header = hdr]
      ELSE LET length == messageBytes[6] * 256 + messageBytes[7]
           IN  IF n = 7 THEN ok(hdr, <<>>, length)
               ELSE LET r == utilRead(messageBytes, 8, length)
                    IN  IF r.panic THEN [bad EXCEPT !.header = hdr]
                        ELSE IF r.next > n THEN ok(hdr, r.bytes, 0)
                        ELSE IF n - r.next + 1 < 2 THEN [bad EXCEPT !.header = hdr]
                        ELSE ok(hdr, r.bytes,
                                messageBytes[r.next] * 256 + messageBytes[r.next + 1])

\* What one call of a handler did: whether it panicked, the response it
\* returned, and how often it called each operation of the client.
NoCalls ==
  [NewPrivateKey |-> 0, ApproveU2FRegistration |-> 0, ApproveU2FAuthentication |-> 0,
   CreateAttestationCertificiate |-> 0, NewAuthenticationCounterId |-> 0, sign |-> 0]

Panics(calls) == [panic |-> TRUE, response |-> <<>>, calls |-> calls]

Returns(response, calls) == [panic |-> FALSE, response |-> response, calls |-> calls]

\* util.Assert(val, message): panics when val is false.
utilAssert(val) == ~val

\* handleU2FRegister, lines 155-158: the approval was denied.
registrationDenied_afterCertificate(calls) ==
  Returns(ToBE16(u2f_SW_CONDITIONS_NOT_SATISFIED),
          [calls EXCEPT !.CreateAttestationCertificiate = 1])

registrationDenied(calls) ==
  Returns(ToBE16(u2f_SW_CONDITIONS_NOT_SATISFIED), calls)

\* handleU2FRegister, line 164: uint8(len(keyHandle)).
handleLengthByte_sevenBits(keyHandle) == Len(keyHandle) % 128

handleLengthByte(keyHandle) == Len(keyHandle) % 256

\* handleU2FRegister.  client = [key, nonce, approve, counter]: the key that
\* NewPrivateKey returns, the nonce of the seal, the answer of the approval
\* callback and the value of the authentication counter.
handleU2FRegister(header, request, client) ==
  IF Len(request) < 32 THEN Panics(NoCalls)     \* request[:32] out of range
  ELSE
  LET challenge == SubSeq(request, 1, 32)
      application == SubSeq(request, 33, Len(request))
  IN  IF utilAssert(Len(challenge) = 32) \/ utilAssert(Len(application) = 32)
      THEN Panics(NoCalls)
      ELSE
      LET privateKey == client.key
          encodedPublicKey == ellipticMarshal(privateKey)
          encodedPrivateKey == MarshalECPrivateKey(privateKey)
          unencryptedKeyHandle == KeyHandle(encodedPrivateKey, application)
          keyHandle == sealKeyHandle(SealingEncryptionKey, client.nonce,
                                     unencryptedKeyHandle)
          c1 == [NoCalls EXCEPT !.NewPrivateKey = 1, !.ApproveU2FRegistration = 1]
      IN  IF ~client.approve
          THEN registrationDenied(c1)
          ELSE
          LET cert == CreateAttestationCertificiate(privateKey)
              signatureDataBytes ==
                Flatten(<< <<0>>, application, challenge, keyHandle, encodedPublicKey >>)
              signature == sign(privateKey, signatureDataBytes)
          IN  Returns(Flatten(<< <<5>>, encodedPublicKey, << handleLengthByte(keyHandle) >>,
                                 keyHandle, cert, signature, ToBE16(u2f_SW_NO_ERROR) >>),
                      [c1 EXCEPT !.CreateAttestationCertificiate = 1, !.sign = 1])

\* bytes.Compare(a, b) != 0 on two slices, either of which may be nil.
bytesDiffer_never(a, b) == FALSE

bytesDiffer(a, b) == a.bytes # b.bytes

\* handleU2FAuthenticate, lines 187-188: CHECK_ONLY.
checkOnly_allocatesCounter ==
  Returns(ToBE16(u2f_SW_CONDITIONS_NOT_SATISFIED),
          [NoCalls EXCEPT !.NewAuthenticationCounterId = 1])

checkOnly == Returns(ToBE16(u2f_SW_CONDITIONS_NOT_SATISFIED), NoCalls)

\* handleU2FAuthenticate, lines 195-197: the client calls of a signature.
signedCalls_counterNotAdvanced(calls) == [calls EXCEPT !.sign = 1]

signedCalls(calls) == [calls EXCEPT !.NewAuthenticationCounterId = 1, !.sign = 1]

\* authenticateControl with the approval asked under SIGN too.
authenticateControl_asksAlways(control, privateKey, application, challenge, client) ==
  IF control = u2f_AUTH_CONTROL_CHECK_ONLY
  THEN checkOnly
  ELSE IF control = u2f_AUTH_CONTROL_ENFORCE_USER_PRESENCE_AND_SIGN
          \/ control = u2f_AUTH_CONTROL_SIGN
  THEN LET asked == TRUE
           c1 == [NoCalls EXCEPT !.ApproveU2FAuthentication = IF asked THEN 1 ELSE 0]
       IN  IF asked /\ ~client.approve
           THEN Returns(ToBE16(u2f_SW_CONDITIONS_NOT_SATISFIED), c1)
           ELSE
           LET counterId == client.counter
               signatureDataBytes ==
                 Flatten(<< application, <<1>>, ToBE32(counterId), challenge >>)
               signature == sign(privateKey, signatureDataBytes)
           IN  Returns(Flatten(<< <<1>>, ToBE32(counterId), signature,
                                  ToBE16(u2f_SW_NO_ERROR) >>),
                       signedCalls(c1))
  ELSE Returns(ToBE16(u2f_SW_WRONG_LENGTH), NoCalls)

\* The branch of handleU2FAuthenticate on the control byte, once the key
\* handle is open and its application matches.
authenticateControl(control, privateKey, application, challenge, client) ==
  IF control = u2f_AUTH_CONTROL_CHECK_ONLY
  THEN checkOnly
  ELSE IF control = u2f_AUTH_CONTROL_ENFORCE_USER_PRESENCE_AND_SIGN
          \/ control = u2f_AUTH_CONTROL_SIGN
  THEN LET asked == control = u2f_AUTH_CONTROL_ENFORCE_USER_PRESENCE_AND_SIGN
           c1 == [NoCalls EXCEPT !.ApproveU2FAuthentication = IF asked THEN 1 ELSE 0]
       IN  IF asked /\ ~client.approve
           THEN Returns(ToBE16(u2f_SW_CONDITIONS_NOT_SATISFIED), c1)
           ELSE
           LET counterId == client.counter
               signatureDataBytes ==
                 Flatten(<< application, <<1>>, ToBE32(counterId), challenge >>)
               signature == sign(privateKey, signatureDataBytes)
           IN  Returns(Flatten(<< <<1>>, ToBE32(counterId), signature,
                                  ToBE16(u2f_SW_NO_ERROR) >>),
                       signedCalls(c1))
  ELSE Returns(ToBE16(u2f_SW_WRONG_LENGTH), NoCalls)

\* handleU2FAuthenticate, lines 176-179: openKeyHandle returned an error.
invalidKeyHandle_checkErr == Panics(NoCalls)

invalidKeyHandle == Returns(ToBE16(u2f_SW_WRONG_DATA), NoCalls)

\* handleU2FAuthenticate.
handleU2FAuthenticate(header, request, client) ==
  LET control == header.Param1
      rc == utilRead(request, 1, 32)
      ra == utilRead(request, rc.next, 32)
      rl == utilRead(request, ra.next, 1)
  IN  IF rc.panic \/ ra.panic \/ rl.panic THEN Panics(NoCalls)
      ELSE
      LET challenge == rc.bytes
          application == ra.bytes
          keyHandleLength == rl.bytes[1]
          rh == utilRead(request, rl.next, keyHandleLength)
      IN  IF rh.panic THEN Panics(NoCalls)
          ELSE
          LET keyHandle == openKeyHandle(SealingEncryptionKey, rh.bytes)
          IN  IF keyHandle.err
              THEN invalidKeyHandle
              ELSE IF keyHandle.PrivateKey.nil
                      \/ bytesDiffer(keyHandle.ApplicationID, Some(application))
              THEN Returns(ToBE16(u2f_SW_WRONG_DATA), NoCalls)
              ELSE
              LET parsed == ParseECPrivateKey(keyHandle.PrivateKey.bytes)
              IN  IF parsed.err THEN Panics(NoCalls)
                  ELSE authenticateControl(control, parsed.key, application,
                                           challenge, client)

\* handleU2FMessage, line 103: the response to u2f_COMMAND_VERSION.
versionResponse_noStatus == << 85, 50, 70, 95, 86, 50 >>

versionResponse == << 85, 50, 70, 95, 86, 50 >> \o ToBE16(u2f_SW_NO_ERROR)

\* handleU2FMessage.
handleU2FMessage(message, client) ==
  LET d == decodeU2FMessage(message)
  IN  IF d.panic THEN Panics(NoCalls)
      ELSE IF d.header.Command = u2f_COMMAND_VERSION
      THEN Returns(versionResponse, NoCalls)
      ELSE IF d.header.Command = u2f_COMMAND_REGISTER
      THEN handleU2FRegister(d.header, d.request, client)
      ELSE IF d.header.Command = u2f_COMMAND_AUTHENTICATE
      THEN handleU2FAuthenticate(d.header, d.request, client)
      ELSE Panics(NoCalls)

\* The APDU a host sends: header || 00 || Lc || request (no Le).
apdu(command, param1, request) ==
  << 0, command, param1, 0 >>
    \o (IF request = <<>> THEN <<>>
        ELSE << 0, (Len(request) \div 256) % 256, Len(request) % 256 >> \o request)

-----------------------------------------------------------------------------
(* usb/usb_device.go: control transfers.                                     *)

usbRequestRecipientDevice == 0
usbRequestRecipientInterface == 1

usbRequestGetStatus == 0
usbRequestGetDescriptor == 6
usbRequestSetConfiguration == 9

usbHIDRequestGetDescriptor == 6
usbHIDRequestSetIdle == 10
usbHIDRequestSetProtocol == 11

usbDescriptorDevice == 1
usbDescriptorConfiguration == 2
usbDescriptorString == 3
usbDescriptorInterface == 4
usbDescriptorEndpoint == 5
usbDescriptorHID == 33
usbDescriptorHIDReport == 34

usbInterfaceClassHID == 3
usbConfigAttributeBase == 128
usbConfigAttributeSelfPowered == 64
usbLangIDEngUSA == 1033

\* util.ReadBE[usbSetupPacket]: the five fields of the 8 setup bytes, the
\* 16-bit ones read most significant byte first.
ReadBE_usbSetupPacket(setupBytes) ==
  [BmRequestType |-> setupBytes[1],
   BRequest |-> setupBytes[2],
   WValue |-> setupBytes[3] * 256 + setupBytes[4],
   WIndex |-> setupBytes[5] * 256 + setupBytes[6],
   WLength |-> setupBytes[7] * 256 + setupBytes[8]]

\* usbSetupPacket.recipient(): bmRequestType & 0x1F.
recipient(setup) == setup.BmRequestType % 32

\* getDescriptorTypeAndIndex(wValue): the type is the high byte, the index
\* the low byte.
getDescriptorTypeAndIndex(wValue) ==
  [type |-> (wValue \div 256) % 256, index |-> wValue % 256]

\* util.Utf16encode of an ASCII string: UTF-16, least significant byte first.
Utf16encode(chars) ==
  [i \in 1..(2 * Len(chars)) |-> IF i % 2 = 1 THEN chars[(i + 1) \div 2] ELSE 0]

\* What a handler of a control request gives back: it panics (util.Panic),
\* or returns a reply, which may be nil.
Fatal == [panic |-> TRUE, reply |-> NilBytes]

Reply(r) == [panic |-> FALSE, reply |-> r]

\* The canonical FIDO report map of 34 bytes in the place of getHIDReport.
getHIDReport_canonical ==
  << 6, 208, 241, 9, 1, 161, 1, 9, 32, 21, 0, 38, 255, 0, 117, 8, 149, 64, 129, 2,
     9, 33, 21, 0, 38, 255, 0, 117, 8, 149, 64, 145, 2, 192 >>

getHIDReport ==
  << 6, 208, 241, 9, 1, 161, 1, 9, 32, 20, 37, 255, 117, 8, 149, 64, 129, 2,
     9, 33, 20, 37, 255, 117, 8, 149, 64, 145, 2, 192 >>

\* util.ToLE(getDeviceDescriptor()): 18 bytes.
getDeviceDescriptor ==
  << 18, usbDescriptorDevice >> \o ToLE16(272) \o << 0, 0, 0, 64 >>
    \o ToLE16(0) \o ToLE16(0) \o ToLE16(1) \o << 1, 2, 3, 1 >>

\* util.ToLE(getConfigurationDescriptor(configLength)): 9 bytes.
getConfigurationDescriptor(configLength) ==
  << 9, usbDescriptorConfiguration >> \o ToLE16((9 + configLength) % 65536)
    \o << 1, 0, 4, usbConfigAttributeBase + usbConfigAttributeSelfPowered, 0 >>

\* util.ToLE(getInterfaceDescriptor()): 9 bytes.
getInterfaceDescriptor ==
  << 9, usbDescriptorInterface, 0, 0, 2, usbInterfaceClassHID, 0, 0, 5 >>

\* util.ToLE(getHIDDescriptor(hidReportDescriptor)): 9 bytes.
getHIDDescriptor(hidReportDescriptor) ==
  << 9, usbDescriptorHID >> \o ToLE16(257) \o << 0, 1, usbDescriptorHIDReport >>
    \o ToLE16(Len(hidReportDescriptor) % 65536)

\* util.ToLE of each of getEndpointDescriptors(): 7 bytes each.
getEndpointDescriptors ==
  << << 7, usbDescriptorEndpoint, 129, 3 >> \o ToLE16(64) \o << 255 >>,
     << 7, usbDescriptorEndpoint, 2, 3 >> \o ToLE16(64) \o << 255 >> >>

\* getStringDescriptor(index): [panic, reply].
getStringDescriptor(index) ==
  CASE index = 0 -> Reply(Some(ToLE16(usbLangIDEngUSA)))
    [] index = 1 ->
         Reply(Some(Utf16encode(<< 78, 111, 32, 67, 111, 109, 112, 97, 110, 121 >>)))
    [] index = 2 ->
         Reply(Some(Utf16encode(
           << 86, 105, 114, 116, 117, 97, 108, 32, 70, 73, 68, 79 >>)))
    [] index = 3 ->
         Reply(Some(Utf16encode(
           << 78, 111, 32, 83, 101, 114, 105, 97, 108, 32, 78, 117, 109, 98, 101,
              114 >>)))
    [] index = 4 -> Reply(Some(Utf16encode(<< 83, 116, 114, 105, 110, 103, 32, 52 >>)))
    [] index = 5 ->
         Reply(Some(Utf16encode(
           << 68, 101, 102, 97, 117, 108, 116, 32, 73, 110, 116, 101, 114, 102, 97,
              99, 101 >>)))
    [] OTHER -> Fatal

\* getDescriptor(descriptorType, index).
getDescriptor(descriptorType, index) ==
  CASE descriptorType = usbDescriptorDevice -> Reply(Some(getDeviceDescriptor))
    [] descriptorType = usbDescriptorConfiguration ->
         LET configBytes ==
               getInterfaceDescriptor \o getHIDDescriptor(getHIDReport)
                 \o Flatten(getEndpointDescriptors)
         IN  Reply(Some(getConfigurationDescriptor(Len(configBytes)) \o configBytes))
    [] descriptorType = usbDescriptorString ->
         LET message == getStringDescriptor(index)
         IN  IF message.panic THEN Fatal
             ELSE Reply(Some(<< (2 + (Len(message.reply.bytes) % 256)) % 256,
                                usbDescriptorString >> \o message.reply.bytes))
    [] OTHER -> Fatal

\* handleDeviceRequest(setup).
handleDeviceRequest(setup) ==
  CASE setup.BRequest = usbRequestGetDescriptor ->
         LET d == getDescriptorTypeAndIndex(setup.WValue)
         IN  getDescriptor(d.type, d.index)
    [] setup.BRequest = usbRequestSetConfiguration -> Reply(NilBytes)
    [] setup.BRequest = usbRequestGetStatus -> Reply(Some(<< 1 >>))
    [] OTHER -> Fatal

\* handleInterfaceRequest(setup).
handleInterfaceRequest(setup) ==
  CASE setup.BRequest = usbHIDRequestSetIdle -> Reply(NilBytes)
    [] setup.BRequest = usbHIDRequestSetProtocol -> Reply(NilBytes)
    [] setup.BRequest = usbHIDRequestGetDescriptor ->
         LET d == getDescriptorTypeAndIndex(setup.WValue)
         IN  IF d.type = usbDescriptorHIDReport THEN Reply(Some(getHIDReport))
             ELSE Fatal
    [] OTHER -> Fatal

\* handleControlMessage(setup).
handleControlMessage(setup) ==
  CASE recipient(setup) = usbRequestRecipientDevice -> handleDeviceRequest(setup)
    [] recipient(setup) = usbRequestRecipientInterface -> handleInterfaceRequest(setup)
    [] OTHER -> Fatal

-----------------------------------------------------------------------------
(* The U2F server handling a sequence of messages, one call of              *)
(* handleU2FMessage after the other.                                        *)

MaxMessages == 3

AppA == Repeat(23, 32)
AppB == Repeat(24, 32)
Applications == {AppA, AppB}

Challenge == Repeat(66, 32)

Nonces == {5}

\* The lengths of the REGISTER requests tried: 64 is the well-formed one.
RegisterLengths == {0, 31, 32, 63, 64, 65}

RegisterRequest(application, n) ==
  SubSeq(Challenge \o application \o Repeat(1, 32), 1, n)

\* The control bytes tried: the three defined ones and some others.
ControlBytes == {7, 3, 8, 0}

\* The key handle a relying party reads out of a REGISTER response:
\* 05 || public key (65) || handle_len (1) || handle_bytes || ...
issuedHandle(response) == SubSeq(response, 68, 67 + response[67])

\* Handle bytes that were never issued by this device.
ForeignHandle ==
  sealKeyHandle(ForeignSealingKey, 5, KeyHandle(MarshalECPrivateKey(1), AppA))

\* An issued handle with one ciphertext byte changed.
Tampered(handle) == [handle EXCEPT ![10] = (handle[10] + 1) % 256]

\* A box sealed under the device's key around a plaintext.
SealedPlaintext(pt) ==
  LET box == seal(SealingEncryptionKey, 5, pt) IN MarshalCBOR(box.Data, box.IV)

NoHandle ==
  { ForeignHandle,                          \* sealed under another key
    << 255, 1, 2 >>,                        \* not CBOR
    SubSeq(ForeignHandle, 1, 100),          \* a truncated envelope
    SealedPlaintext(<< 1, 2, 3 >>),         \* the plaintext is not CBOR
    SealedPlaintext(<< 161, 2 >> \o cborBstr(AppA)) }  \* no private key

AuthenticateRequest(application, handle) ==
  Challenge \o application \o << Len(handle) % 256 >> \o handle

\* The value of outputLock while the mutex is unlocked.
NoHolder == 0

\* No call of decodeU2FMessage alone yet.
NoDecoded == [message |-> <<>>, result |-> decodeU2FMessage(<< 0, 0, 0, 0 >>)]

NoLast ==
  [message |-> <<>>, approve |-> FALSE, counter |-> 0,
   result |-> Returns(<<>>, NoCalls)]

Init ==
  /\ panicked = FALSE
  /\ counter = 16
  /\ keyCount = 0
  /\ handled = 0
  /\ last = NoLast
  /\ issued = {}
  /\ signedCounters = <<>>
  /\ decoded = NoDecoded
  /\ urbs = <<>>
  /\ outputLock = NoHolder
  /\ waiting = {}
  /\ killed = {}
  /\ responses = <<>>
  /\ removed = {}
  /\ lockOrder = <<>>
  /\ finishOrder = <<>>

\* What one call of handleU2FMessage leaves behind: result is what the call
\* did, d the decoded message.
Handled(message, approve, result, d) ==
  /\ ~panicked
  /\ panicked' = result.panic
  /\ counter' = counter + result.calls.NewAuthenticationCounterId
  /\ keyCount' = keyCount + result.calls.NewPrivateKey
  /\ handled' = handled + 1
  /\ last' = [message |-> message, approve |-> approve, counter |-> counter,
              result |-> result]
  /\ issued' =
       IF ~result.panic /\ d.header.Command = u2f_COMMAND_REGISTER
          /\ Len(result.response) > 2
       THEN issued \cup {[handle |-> issuedHandle(result.response),
                          application |-> SubSeq(d.request, 33, 64)]}
       ELSE issued
  /\ signedCounters' =
       IF ~result.panic /\ d.header.Command = u2f_COMMAND_AUTHENTICATE
          /\ Len(result.response) >= 7
          /\ SubSeq(result.response, Len(result.response) - 1,
                    Len(result.response)) = ToBE16(u2f_SW_NO_ERROR)
       THEN Append(signedCounters,
                   result.response[2] * 16777216 + result.response[3] * 65536
                     + result.response[4] * 256 + result.response[5])
       ELSE signedCounters
  /\ UNCHANGED decoded

\* One call of handleU2FMessage(message), the approval callback answering
\* approve and the seal drawing nonce.
Handle(message, approve, nonce) ==
  Handled(message, approve,
          handleU2FMessage(message, [key |-> keyCount + 1, nonce |-> nonce,
                                     approve |-> approve, counter |-> counter]),
          decodeU2FMessage(message))

Version ==
  /\ handled < MaxMessages
  /\ Handle(apdu(u2f_COMMAND_VERSION, 0, <<>>), FALSE, 5)
  /\ UNCHANGED usbVars

Register ==
  /\ handled < MaxMessages
  /\ \E application \in Applications, n \in RegisterLengths,
        approve \in BOOLEAN, nonce \in Nonces :
       Handle(apdu(u2f_COMMAND_REGISTER, 0, RegisterRequest(application, n)),
              approve, nonce)
  /\ UNCHANGED usbVars

\* The approval callback is asked under this control byte only.
Answers(control) ==
  IF control = u2f_AUTH_CONTROL_ENFORCE_USER_PRESENCE_AND_SIGN
  THEN BOOLEAN ELSE {FALSE}

Authenticate ==
  /\ handled < MaxMessages
  /\ \E application \in Applications, control \in ControlBytes,
        handle \in {i.handle : i \in issued} \cup {Tampered(i.handle) : i \in issued}
                     \cup NoHandle :
       \E approve \in Answers(control) :
         Handle(apdu(u2f_COMMAND_AUTHENTICATE, control,
                     AuthenticateRequest(application, handle)),
                approve, 5)
  /\ UNCHANGED usbVars

-----------------------------------------------------------------------------
(* usb/usb_device.go: USBDevice.HandleMessage, called by the transport for  *)
(* one transfer after the other, and the goroutines it starts.              *)

\* A transfer as the transport submits it, before HandleMessage has run.
Urb(endpoint, setupBytes, transferBuffer) ==
  [endpoint |-> endpoint,
   setup |-> setupBytes,
   before |-> transferBuffer,     \* the transfer buffer as submitted
   buffer |-> transferBuffer,     \* the transfer buffer now
   pc |-> "none",                 \* where the transfer's goroutine is
   response |-> NilBytes,         \* handleOutputMessage's local response
   copies |-> 0,                  \* how often copy() wrote into the buffer
   finished |-> 0,                \* how often onFinish was called
   trace |-> <<>>]                \* what HandleMessage did before it returned

Ids == 1..Len(urbs)

\* HandleMessage, case usbEndpointControl: the reply is copied into the
\* transfer buffer unless it is nil, then onFinish is called.
HandleMessageControl(setupBytes, transferBuffer) ==
  LET setup == ReadBE_usbSetupPacket(setupBytes)
      r == handleControlMessage(setup)
      u == Urb("control", setupBytes, transferBuffer)
  IN  /\ ~panicked
      /\ panicked' = r.panic
      /\ urbs' = Append(urbs,
           IF r.panic THEN [u EXCEPT !.trace = << "panic" >>]
           ELSE IF ~r.reply.nil
           THEN [u EXCEPT !.buffer = copy(transferBuffer, r.reply.bytes),
                          !.copies = 1, !.finished = 1,
                          !.trace = << "copy", "onFinish", "return" >>]
           ELSE [u EXCEPT !.finished = 1, !.trace = << "onFinish", "return" >>])
      /\ UNCHANGED << u2fVars, outputLock, waiting, killed, responses, removed,
                      lockOrder, finishOrder >>

\* HandleMessage, case usbEndpointOutput: go device.handleOutputMessage(...).
HandleMessageOutput(setupBytes, transferBuffer) ==
  /\ ~panicked
  /\ urbs' = Append(urbs, [Urb("output", setupBytes, transferBuffer)
                             EXCEPT !.pc = "spawned", !.trace = << "go", "return" >>])
  /\ UNCHANGED << panicked, u2fVars, outputLock, waiting, killed, responses, removed,
                  lockOrder, finishOrder >>

\* HandleMessage, case usbEndpointInput: go device.delegate.HandleMessage(...),
\* then onFinish.
HandleMessageInput(setupBytes, transferBuffer) ==
  /\ ~panicked
  /\ urbs' = Append(urbs, [Urb("input", setupBytes, transferBuffer)
                             EXCEPT !.pc = "spawned", !.finished = 1,
                                    !.trace = << "go", "onFinish", "return" >>])
  /\ UNCHANGED << panicked, u2fVars, outputLock, waiting, killed, responses, removed,
                  lockOrder, finishOrder >>

\* HandleMessage, default: util.Panic("Invalid USB endpoint").
HandleMessageInvalid(setupBytes, transferBuffer) ==
  /\ ~panicked
  /\ panicked' = TRUE
  /\ urbs' = Append(urbs, [Urb("invalid", setupBytes, transferBuffer)
                             EXCEPT !.trace = << "panic" >>])
  /\ UNCHANGED << u2fVars, outputLock, waiting, killed, responses, removed,
                  lockOrder, finishOrder >>

\* sync.Mutex: Lock() returns once no one holds the lock.
LockIsFree_always == TRUE

LockIsFree == outputLock = NoHolder

\* handleOutputMessage, lines 104-105: outputLock.Lock(), then the call of
\* delegate.GetResponse(id, 1000), which registers the id as waiting and blocks.
OutputLock(id) ==
  /\ ~panicked
  /\ urbs[id].endpoint = "output"
  /\ urbs[id].pc = "spawned"
  /\ LockIsFree
  /\ outputLock' = id
  /\ lockOrder' = Append(lockOrder, id)
  /\ waiting' = waiting \cup {id}
  /\ urbs' = [urbs EXCEPT ![id].pc = "waiting"]
  /\ UNCHANGED << panicked, u2fVars, killed, responses, removed, finishOrder >>

\* handleOutputMessage, line 106: where the handler goes with the response.
afterGetResponse_always(response) == "copy"

afterGetResponse(response) == IF ~response.nil THEN "copy" ELSE "unlock"

\* delegate.GetResponse returns: the next response, or nil when the request
\* was cancelled or when the timeout elapsed.
GetResponseReturn(id) ==
  /\ ~panicked
  /\ urbs[id].pc = "waiting"
  /\ \/ /\ id \in killed
        /\ killed' = killed \ {id}
        /\ urbs' = [urbs EXCEPT ![id].response = NilBytes,
                                ![id].pc = afterGetResponse(NilBytes)]
        /\ UNCHANGED << waiting, responses >>
     \/ /\ id \notin killed
        /\ responses # <<>>
        /\ responses' = Tail(responses)
        /\ waiting' = waiting \ {id}
        /\ urbs' = [urbs EXCEPT ![id].response = Some(Head(responses)),
                                ![id].pc = afterGetResponse(Some(Head(responses)))]
        /\ UNCHANGED killed
     \/ /\ id \notin killed
        /\ waiting' = waiting \ {id}
        /\ urbs' = [urbs EXCEPT ![id].response = NilBytes,
                                ![id].pc = afterGetResponse(NilBytes)]
        /\ UNCHANGED << killed, responses >>
  /\ UNCHANGED << panicked, u2fVars, outputLock, removed, lockOrder, finishOrder >>

\* handleOutputMessage, line 107: copy(transferBuffer, response).
OutputCopy(id) ==
  /\ ~panicked
  /\ urbs[id].pc = "copy"
  /\ urbs' = [urbs EXCEPT ![id].buffer = copy(@, urbs[id].response.bytes),
                          ![id].copies = @ + 1,
                          ![id].pc = "onFinish"]
  /\ UNCHANGED << panicked, u2fVars, outputLock, waiting, killed, responses, removed,
                  lockOrder, finishOrder >>

\* handleOutputMessage, line 108: onFinish().
OutputOnFinish(id) ==
  /\ ~panicked
  /\ urbs[id].pc = "onFinish"
  /\ urbs' = [urbs EXCEPT ![id].finished = @ + 1, ![id].pc = "unlock"]
  /\ finishOrder' = Append(finishOrder, id)
  /\ UNCHANGED << panicked, u2fVars, outputLock, waiting, killed, responses, removed,
                  lockOrder >>

\* handleOutputMessage, line 110, with onFinish called after the if.
OutputUnlock_callsOnFinish(id) ==
  /\ ~panicked
  /\ urbs[id].pc = "unlock"
  /\ outputLock' = NoHolder
  /\ urbs' = [urbs EXCEPT ![id].pc = "done",
                          ![id].finished = IF urbs[id].response.nil THEN 1 ELSE @]
  /\ UNCHANGED << panicked, u2fVars, waiting, killed, responses, removed, lockOrder,
                  finishOrder >>

\* handleOutputMessage, line 110: outputLock.Unlock().
OutputUnlock(id) ==
  /\ ~panicked
  /\ urbs[id].pc = "unlock"
  /\ outputLock' = NoHolder
  /\ urbs' = [urbs EXCEPT ![id].pc = "done"]
  /\ UNCHANGED << panicked, u2fVars, waiting, killed, responses, removed, lockOrder,
                  finishOrder >>

\* USBDevice.RemoveWaitingRequest(id) forwards to the delegate, which cancels
\* the GetResponse in progress for id and answers whether there was one.
RemoveWaitingRequest(id) ==
  /\ ~panicked
  /\ IF id \in waiting
     THEN /\ waiting' = waiting \ {id}
          /\ killed' = killed \cup {id}
          /\ removed' = removed \cup {id}
     ELSE UNCHANGED << waiting, killed, removed >>
  /\ UNCHANGED << panicked, u2fVars, urbs, outputLock, responses, lockOrder,
                  finishOrder >>

\* Whether handleU2FMessage(message) calls an approval callback of the client.
asksApproval(message) ==
  LET r == handleU2FMessage(message, [key |-> keyCount + 1, nonce |-> 5,
                                      approve |-> TRUE, counter |-> counter])
  IN  r.calls.ApproveU2FRegistration + r.calls.ApproveU2FAuthentication > 0

\* The delegate queues the response of the U2F server for GetResponse.
QueueResponse ==
  responses' = IF panicked' THEN responses
               ELSE Append(responses, last'.result.response)

\* InputStart with the message handled under the output lock.
InputStart_underLock(id) ==
  /\ ~panicked
  /\ urbs[id].endpoint = "input"
  /\ urbs[id].pc = "spawned"
  /\ LockIsFree
  /\ IF asksApproval(urbs[id].before)
     THEN /\ urbs' = [urbs EXCEPT ![id].pc = "approving"]
          /\ outputLock' = id
          /\ UNCHANGED << panicked, u2fVars, responses >>
     ELSE /\ Handle(urbs[id].before, FALSE, 5)
          /\ QueueResponse
          /\ urbs' = [urbs EXCEPT ![id].pc = "done"]
          /\ UNCHANGED outputLock
  /\ UNCHANGED << waiting, killed, removed, lockOrder, finishOrder >>

\* The goroutine of an input transfer, delegate.HandleMessage(transferBuffer),
\* runs the U2F server on the message: up to the approval callback if the
\* message asks for one, to the end otherwise.
InputStart(id) ==
  /\ ~panicked
  /\ urbs[id].endpoint = "input"
  /\ urbs[id].pc = "spawned"
  /\ IF asksApproval(urbs[id].before)
     THEN /\ urbs' = [urbs EXCEPT ![id].pc = "approving"]
          /\ UNCHANGED << panicked, u2fVars, responses >>
     ELSE /\ Handle(urbs[id].before, FALSE, 5)
          /\ QueueResponse
          /\ urbs' = [urbs EXCEPT ![id].pc = "done"]
  /\ UNCHANGED << outputLock, waiting, killed, removed, lockOrder, finishOrder >>

\* The approval callback returns and the U2F server finishes the message.
InputApproval(id) ==
  /\ ~panicked
  /\ urbs[id].pc = "approving"
  /\ \E approve \in BOOLEAN : Handle(urbs[id].before, approve, 5)
  /\ QueueResponse
  /\ urbs' = [urbs EXCEPT ![id].pc = "done"]
  /\ UNCHANGED << outputLock, waiting, killed, removed, lockOrder, finishOrder >>

\* The transfers the transport submits.
MaxOutputs == 2

MaxInputs == 2

Outputs == {id \in Ids : urbs[id].endpoint = "output"}

Inputs == {id \in Ids : urbs[id].endpoint = "input"}

NoSetup == Zeros(8)

TransferBuffer(n) == Repeat(170, n)

OutputLengths == {4}

PipelineMessages ==
  { apdu(u2f_COMMAND_VERSION, 0, <<>>),
    apdu(u2f_COMMAND_REGISTER, 0, RegisterRequest(AppA, 64)) }

SubmitOutput ==
  /\ Cardinality(Outputs) < MaxOutputs
  /\ \E n \in OutputLengths : HandleMessageOutput(NoSetup, TransferBuffer(n))

SubmitInput ==
  /\ Cardinality(Inputs) < MaxInputs
  /\ \E message \in PipelineMessages : HandleMessageInput(NoSetup, message)

Next ==
  \/ SubmitOutput
  \/ SubmitInput
  \/ \E id \in Ids : OutputLock(id)
  \/ \E id \in Ids : GetResponseReturn(id)
  \/ \E id \in Ids : OutputCopy(id)
  \/ \E id \in Ids : OutputOnFinish(id)
  \/ \E id \in Ids : OutputUnlock(id)
  \/ \E id \in Ids : RemoveWaitingRequest(id)
  \/ \E id \in Ids : InputStart(id)
  \/ \E id \in Ids : InputApproval(id)

Spec == Init /\ [][Next]_vars

-----------------------------------------------------------------------------
(* Control transfers, and a transfer on an endpoint the device does not     *)
(* have, submitted one after the other.                                     *)

MaxControlTransfers == 2

ControlSetups ==
  { << 128, 6, 1, 0, 0, 0, 0, 64 >>,     \* device, GET_DESCRIPTOR, wValue 01 00
    << 128, 6, 0, 1, 0, 0, 64, 0 >>,     \* device, GET_DESCRIPTOR, wValue 00 01
    << 128, 6, 2, 0, 0, 0, 0, 41 >>,     \* wValue 02 00
    << 128, 6, 3, 0, 0, 0, 0, 255 >>,    \* wValue 03 00
    << 128, 6, 3, 1, 0, 0, 0, 255 >>,
    << 128, 6, 3, 2, 0, 0, 0, 255 >>,
    << 128, 6, 3, 3, 0, 0, 0, 255 >>,
    << 128, 6, 3, 4, 0, 0, 0, 255 >>,
    << 128, 6, 3, 5, 0, 0, 0, 255 >>,
    << 128, 6, 3, 6, 0, 0, 0, 255 >>,    \* no such string
    << 128, 6, 4, 0, 0, 0, 0, 9 >>,      \* no such descriptor
    << 0, 9, 0, 1, 0, 0, 0, 0 >>,        \* device, SET_CONFIGURATION
    << 128, 0, 0, 0, 0, 0, 0, 2 >>,      \* device, GET_STATUS
    << 0, 5, 0, 1, 0, 0, 0, 0 >>,        \* device, a request the device lacks
    << 33, 10, 0, 0, 0, 0, 0, 0 >>,      \* interface, SET_IDLE
    << 33, 11, 0, 0, 0, 0, 0, 0 >>,      \* interface, SET_PROTOCOL
    << 129, 6, 34, 0, 0, 0, 0, 30 >>,    \* interface, GET_DESCRIPTOR, wValue 22 00
    << 129, 6, 33, 0, 0, 0, 0, 9 >>,     \* interface, GET_DESCRIPTOR, wValue 21 00
    << 33, 1, 0, 0, 0, 0, 0, 0 >>,       \* interface, a request the device lacks
    << 130, 0, 0, 0, 0, 0, 0, 2 >> }     \* recipient endpoint

ControlLengths == {0, 1, 4, 18, 64}

ControlTransfer ==
  /\ Len(urbs) < MaxControlTransfers
  /\ \E setupBytes \in ControlSetups, n \in ControlLengths :
       HandleMessageControl(setupBytes, TransferBuffer(n))

InvalidTransfer ==
  /\ Len(urbs) < MaxControlTransfers
  /\ HandleMessageInvalid(NoSetup, TransferBuffer(8))

NextControl == ControlTransfer \/ InvalidTransfer

SpecControl == Init /\ [][NextControl]_vars

-----------------------------------------------------------------------------
(* decodeU2FMessage called on its own, on messages of every shape.           *)

MaxDecodes == 1

DecodeHeaders == { << 0, 1, 0, 0 >>, << 0, 2, 3, 0 >>, << 128, 3, 0, 0 >> }

DecodeLengths == {0, 1, 2, 3}

\* What may follow the request bytes: nothing, a response length, one byte.
DecodeTrailers == { <<>>, << 1, 2 >>, << 0, 64 >>, << 9 >> }

\* header, header || marker, header || marker || one byte, and
\* header || marker || L1 || body || trailer, the body being as long as L1
\* says or one byte shorter or longer.
DecodeInputs ==
  DecodeHeaders
    \cup {h \o << marker >> : h \in DecodeHeaders, marker \in {0, 1}}
    \cup {h \o << marker, 7 >> : h \in DecodeHeaders, marker \in {0, 1}}
    \cup {h \o << marker, 0, l1 >> \o Repeat(187, k) \o t :
            h \in DecodeHeaders, marker \in {0, 1}, l1 \in DecodeLengths,
            k \in DecodeLengths, t \in DecodeTrailers}
    \cup {h \o << 0, 1, 0 >> \o Repeat(187, 256) \o t :
            h \in DecodeHeaders, t \in DecodeTrailers}

DecodeMessage ==
  /\ ~panicked
  /\ handled < MaxDecodes
  /\ \E message \in DecodeInputs :
       LET result == decodeU2FMessage(message)
       IN  /\ decoded' = [message |-> message, result |-> result]
           /\ panicked' = result.panic
  /\ handled' = handled + 1
  /\ UNCHANGED << counter, keyCount, last, issued, signedCounters, usbVars >>

NextDecode == DecodeMessage

SpecDecode == Init /\ [][NextDecode]_vars

-----------------------------------------------------------------------------

NextU2F == Version \/ Register \/ Authenticate

SpecU2F == Init /\ [][NextU2F]_vars

-----------------------------------------------------------------------------
(* Properties of the output pipeline (Spec).                                 *)

\* The output handlers between Lock() and Unlock().
InLock == {id \in Outputs : urbs[id].pc \in {"waiting", "copy", "onFinish", "unlock"}}

\* The output handlers between the call of GetResponse and the end of
\* copy-and-onFinish.
InFlight == {id \in Outputs : urbs[id].pc \in {"waiting", "copy", "onFinish"}}

Position(seq, x) == CHOOSE i \in 1..Len(seq) : seq[i] = x

InSeq(seq, x) == \E i \in 1..Len(seq) : seq[i] = x

\* C1: at most one output handler is between its call of GetResponse and the
\* end of its copy-and-onFinish at any time, and that handler holds the
\* output lock; a handler that called GetResponse before another one has
\* copied its response and called onFinish, or got no response, and has left
\* the lock, before the other one's call.
C1_OutputHandlersExclude ==
  /\ Cardinality(InFlight) <= 1
  /\ Cardinality(InLock) <= 1
  /\ \A id \in InLock : outputLock = id
  /\ \A i, j \in 1..Len(lockOrder) :
       i < j =>
         LET u == urbs[lockOrder[i]]
         IN  /\ u.pc = "done"
             /\ \/ u.response.nil /\ u.copies = 0 /\ u.finished = 0
                \/ ~u.response.nil /\ u.copies = 1 /\ u.finished = 1

\* Two output handlers were started together; one got its response, copied it
\* and called onFinish, and the other one is now inside GetResponse.
C1_Witness ==
  /\ Len(lockOrder) = 2
  /\ urbs[lockOrder[1]].finished = 1
  /\ urbs[lockOrder[1]].buffer # urbs[lockOrder[1]].before
  /\ urbs[lockOrder[2]].pc = "waiting"

Finished(id) == urbs[id].finished > 0

Ascending(seq) == \A i, j \in 1..Len(seq) : i < j => seq[i] < seq[j]

\* C2: when every submitted output transfer got a response, the onFinish
\* callbacks fired in the order in which the transfers were submitted.
C2_FinishInSubmissionOrder ==
  (Cardinality(Outputs) = MaxOutputs /\ \A id \in Outputs : Finished(id))
    => Ascending(finishOrder)

\* C4: an output handler whose GetResponse returned nil leaves the transfer
\* buffer as it was, never calls onFinish, and releases the output lock.
C4_NoResponseLeavesTransfer ==
  \A id \in Outputs :
    (urbs[id].response.nil /\ urbs[id].pc \in {"unlock", "done"}) =>
      /\ urbs[id].buffer = urbs[id].before
      /\ urbs[id].copies = 0
      /\ urbs[id].finished = 0
      /\ ~InSeq(finishOrder, id)
      /\ urbs[id].pc = "unlock" => outputLock = id /\ ENABLED OutputUnlock(id)
      /\ urbs[id].pc = "done" => outputLock # id

\* An output transfer timed out (it was not cancelled), and the transfer that
\* took the lock after it got its response.
C4_Witness ==
  \E a, b \in Outputs :
    /\ urbs[a].pc = "done" /\ urbs[a].response.nil /\ a \notin removed
    /\ InSeq(lockOrder, b) /\ Position(lockOrder, a) < Position(lockOrder, b)
    /\ urbs[b].finished = 1

\* C5: once RemoveWaitingRequest(id) has returned true, the handler of that
\* transfer never writes to its transfer buffer and never calls onFinish.
C5_RemovedTransferUntouched ==
  \A id \in removed :
    /\ urbs[id].endpoint = "output"
    /\ urbs[id].buffer = urbs[id].before
    /\ urbs[id].copies = 0
    /\ urbs[id].finished = 0
    /\ ~InSeq(finishOrder, id)
    /\ urbs[id].pc \in {"waiting", "unlock", "done"}
    /\ urbs[id].pc # "waiting" => urbs[id].response.nil

\* A cancelled transfer's handler has run to its end while a response was
\* there to be fetched.
C5_Witness ==
  \E id \in removed : urbs[id].pc = "done" /\ responses # <<>>

Approving == {id \in Inputs : urbs[id].pc = "approving"}

\* C6 as stated: while an approval callback is blocked, the output lock is
\* held, and no output transfer completes until the callback returns.
C6_LockHeldDuringApproval ==
  [][Approving # {} => (outputLock # NoHolder /\ finishOrder' = finishOrder)]_vars

\* C6: the approval callback runs in the goroutine of the input transfer,
\* which never takes the output lock: the lock is held exactly while an
\* output handler is between Lock() and Unlock(), whether or not an approval
\* is pending, so output transfers can be processed while the callback is
\* blocked.
C6_ApprovalTakesNoLock ==
  /\ outputLock # NoHolder => outputLock \in InLock
  /\ \A id \in InLock : outputLock = id
  /\ \A id \in Inputs : outputLock # id /\ urbs[id].pc \in {"spawned", "approving", "done"}

\* An approval is pending, no one holds the output lock, and an output
\* transfer has completed with the response of an earlier message since the
\* callback was entered.
C6_Witness ==
  /\ Approving # {}
  /\ outputLock = NoHolder
  /\ \E id \in Outputs, a \in Approving :
       Finished(id) /\ urbs[id].pc = "done" /\ a < id

-----------------------------------------------------------------------------
(* Properties of control transfers (SpecControl).                            *)

Count(seq, x) == Cardinality({i \in 1..Len(seq) : seq[i] = x})

\* C3: for every control transfer that does not hit a fatal error,
\* HandleMessage has written the first min(len(reply), len(buffer)) bytes of
\* the reply into the transfer buffer and left the rest of it (all of it when
\* the reply is empty) untouched, and has called onFinish exactly once,
\* before it returned to the transport.
C3_ControlTransferSynchronous ==
  \A id \in Ids :
    urbs[id].endpoint = "control" =>
      LET u == urbs[id]
          r == handleControlMessage(ReadBE_usbSetupPacket(u.setup))
          reply == r.reply.bytes
          n == Min(Len(reply), Len(u.before))
          t == u.trace
      IN  IF r.panic
          THEN u.finished = 0 /\ u.buffer = u.before /\ Count(t, "return") = 0
          ELSE /\ Len(u.buffer) = Len(u.before)
               /\ \A i \in 1..Len(u.buffer) :
                    u.buffer[i] = IF i <= n THEN reply[i] ELSE u.before[i]
               /\ u.finished = 1
               /\ Count(t, "onFinish") = 1
               /\ Len(t) >= 2 /\ t[Len(t)] = "return" /\ t[Len(t) - 1] = "onFinish"
               /\ Count(t, "copy") = u.copies
               /\ Count(t, "copy") = 1 => t[1] = "copy"
               /\ u.pc = "none"

\* A device descriptor of 18 bytes was asked for with a transfer buffer of 4
\* bytes, and a request with no reply was finished with its buffer untouched.
C3_Witness ==
  \E a, b \in Ids :
    /\ urbs[a].endpoint = "control" /\ urbs[a].finished = 1
    /\ Len(urbs[a].before) = 4 /\ urbs[a].buffer = << 18, 1, 16, 1 >>
    /\ urbs[b].endpoint = "control" /\ urbs[b].finished = 1
    /\ Len(urbs[b].before) = 4 /\ urbs[b].copies = 0
    /\ urbs[b].buffer = urbs[b].before

-----------------------------------------------------------------------------
(* Properties of the U2F server (SpecU2F).                                   *)

LastDecoded == decodeU2FMessage(last.message)

LastIs(command) ==
  /\ last.message # <<>>
  /\ ~LastDecoded.panic
  /\ LastDecoded.header.Command = command

\* The fields of the last AUTHENTICATE request.
LastApplication == SubSeq(LastDecoded.request, 33, 64)

LastHandle == SubSeq(LastDecoded.request, 66, 65 + LastDecoded.request[65])

LastControl == LastDecoded.header.Param1

SW(word) == << word \div 256, word % 256 >>

\* A response that carries a signature: 01 || counter || signature || 90 00.
Signed(result) ==
  /\ ~result.panic
  /\ Len(result.response) > 7
  /\ result.response[1] = 1
  /\ SubSeq(result.response, 2, 5) = ToBE32(last.counter)
  /\ SubSeq(result.response, Len(result.response) - 1, Len(result.response)) = << 144, 0 >>
  /\ result.calls.sign = 1
  /\ result.calls.NewAuthenticationCounterId = 1

\* C7: a REGISTER request whose data is not exactly 64 bytes is answered
\* with 6A 80 as a returned response, without a key being generated and
\* without the approval being asked.
C7_RegisterWrongLengthRejected ==
  (LastIs(u2f_COMMAND_REGISTER) /\ Len(LastDecoded.request) # 64) =>
    /\ ~last.result.panic
    /\ ~panicked
    /\ last.result.response = << 106, 128 >>
    /\ last.result.calls.NewPrivateKey = 0
    /\ last.result.calls.ApproveU2FRegistration = 0

\* C8: for an AUTHENTICATE request whose handle opens and was issued for the
\* request's application: P1 = 07 returns 69 85 without asking the approval;
\* P1 = 03 asks the approval exactly once and returns 69 85 if it is denied,
\* and signs otherwise; P1 = 08 signs without asking the approval; every
\* other P1 returns 67 00.
C8_AuthenticateControlByte ==
  (/\ LastIs(u2f_COMMAND_AUTHENTICATE)
   /\ [handle |-> LastHandle, application |-> LastApplication] \in issued) =>
    LET result == last.result
        asked == result.calls.ApproveU2FAuthentication
    IN  /\ ~result.panic
        /\ LastControl = 7 => result.response = << 105, 133 >> /\ asked = 0
                              /\ result.calls.sign = 0
        /\ LastControl = 3 =>
             /\ asked = 1
             /\ IF last.approve THEN Signed(result)
                ELSE result.response = << 105, 133 >> /\ result.calls.sign = 0
        /\ LastControl = 8 => Signed(result) /\ asked = 0
        /\ LastControl \notin {7, 3, 8} =>
             result.response = << 103, 0 >> /\ asked = 0 /\ result.calls.sign = 0

\* An AUTHENTICATE with P1 = 03 on an issued handle was approved and signed.
C8_Witness ==
  /\ LastIs(u2f_COMMAND_AUTHENTICATE)
  /\ [handle |-> LastHandle, application |-> LastApplication] \in issued
  /\ LastControl = 3
  /\ last.approve
  /\ Signed(last.result)

\* C9: an AUTHENTICATE request carrying a handle issued for application A
\* and an application field B different from A returns exactly 6A 80 for
\* every control byte, and neither the approval nor the counter is invoked.
C9_WrongApplicationRejected ==
  (/\ LastIs(u2f_COMMAND_AUTHENTICATE)
   /\ \E i \in issued : i.handle = LastHandle /\ i.application # LastApplication) =>
    /\ ~last.result.panic
    /\ last.result.response = << 106, 128 >>
    /\ last.result.calls.ApproveU2FAuthentication = 0
    /\ last.result.calls.NewAuthenticationCounterId = 0
    /\ last.result.calls.sign = 0
    /\ counter = last.counter

\* A handle issued for one application was presented with the other one
\* under CHECK_ONLY and was answered 6A 80.
C9_Witness ==
  /\ LastIs(u2f_COMMAND_AUTHENTICATE)
  /\ \E i \in issued : i.handle = LastHandle /\ i.application # LastApplication
  /\ LastControl = u2f_AUTH_CONTROL_CHECK_ONLY
  /\ last.result.response = << 106, 128 >>

\* Handles that do not open: the seal fails authentication (a handle of this
\* device with a byte changed, a handle sealed under another key), the
\* envelope is not CBOR, or the plaintext is not CBOR.
Unopenable ==
  {Tampered(i.handle) : i \in issued}
    \cup { ForeignHandle, << 255, 1, 2 >>, SubSeq(ForeignHandle, 1, 100),
           SealedPlaintext(<< 1, 2, 3 >>) }

StatusWord(response) ==
  response[Len(response) - 1] * 256 + response[Len(response)]

\* C11: when the approval of a registration is denied, the REGISTER response
\* is exactly the two bytes 69 85, no attestation certificate is requested
\* from the client and no signature is produced.
C11_RegisterDenied ==
  (/\ LastIs(u2f_COMMAND_REGISTER)
   /\ Len(LastDecoded.request) = 64
   /\ ~last.approve) =>
    /\ ~last.result.panic
    /\ last.result.response = << 105, 133 >>
    /\ last.result.calls.ApproveU2FRegistration = 1
    /\ last.result.calls.CreateAttestationCertificiate = 0
    /\ last.result.calls.sign = 0

\* A well-formed REGISTER was denied after an earlier one was approved.
C11_Witness ==
  /\ LastIs(u2f_COMMAND_REGISTER)
  /\ Len(LastDecoded.request) = 64
  /\ ~last.approve
  /\ last.result.response = << 105, 133 >>
  /\ issued # {}

\* Key handles with private keys of several lengths up to 200 bytes.
PrivateKeyLengths == {0, 1, 23, 24, 121, 200}

RoundTripHandles ==
  {KeyHandle(Repeat(171, n), application) :
     n \in PrivateKeyLengths, application \in Applications}

\* C12: opening a sealed key handle returns the key handle without error, for
\* private keys of up to 200 bytes; and every handle REGISTER has issued
\* still opens to a private key of this device and to its application
\* whatever was handled since, so that an AUTHENTICATE that presents it with
\* the same application is not rejected as wrong data.
C12_SealedHandleOpens ==
  /\ \A h \in RoundTripHandles :
       openKeyHandle(SealingEncryptionKey,
                     sealKeyHandle(SealingEncryptionKey, 5, h))
         = [err |-> FALSE, PrivateKey |-> Some(h.PrivateKey),
            ApplicationID |-> Some(h.ApplicationID)]
  /\ \A i \in issued :
       LET kh == openKeyHandle(SealingEncryptionKey, i.handle)
       IN  /\ ~kh.err
           /\ kh.ApplicationID = Some(i.application)
           /\ \E k \in 1..keyCount : kh.PrivateKey = Some(MarshalECPrivateKey(k))
  /\ (/\ LastIs(u2f_COMMAND_AUTHENTICATE)
      /\ [handle |-> LastHandle, application |-> LastApplication] \in issued) =>
       /\ ~last.result.panic
       /\ last.result.response # SW(u2f_SW_WRONG_DATA)
       /\ LastControl = u2f_AUTH_CONTROL_CHECK_ONLY
            => last.result.response = SW(u2f_SW_CONDITIONS_NOT_SATISFIED)

\* A handle issued by the first message is presented under CHECK_ONLY by the
\* third, a REGISTER for the other application having been handled between.
C12_Witness ==
  /\ handled = 3
  /\ Cardinality(issued) = 2
  /\ LastIs(u2f_COMMAND_AUTHENTICATE)
  /\ LastControl = u2f_AUTH_CONTROL_CHECK_ONLY
  /\ \E i \in issued :
       /\ i.handle = LastHandle /\ i.application = LastApplication
       /\ openKeyHandle(SealingEncryptionKey, i.handle).PrivateKey
            = Some(MarshalECPrivateKey(1))
  /\ last.result.response = << 105, 133 >>

\* C13: the counters carried by the signed AUTHENTICATE responses, in the
\* order in which the requests were handled, are strictly increasing.
C13_SignedCountersIncrease ==
  /\ Ascending(signedCounters)
  /\ (LastIs(u2f_COMMAND_AUTHENTICATE) /\ Signed(last.result)) =>
       /\ signedCounters # <<>>
       /\ signedCounters[Len(signedCounters)] = last.counter

\* Two AUTHENTICATE requests were signed one after the other.
C13_Witness ==
  /\ Len(signedCounters) = 2
  /\ signedCounters[1] < signedCounters[2]
  /\ Signed(last.result)

\* C14: every response handleU2FMessage returns for a VERSION, REGISTER or
\* AUTHENTICATE message ends in a two-byte big-endian status word that is
\* one of 9000, 6985, 6A80, 6700.
C14_ResponseEndsInStatusWord ==
  (last.message # <<>> /\ ~last.result.panic) =>
    /\ Len(last.result.response) >= 2
    /\ StatusWord(last.result.response) \in {36864, 27013, 27264, 26368}

\* Each of the three commands has returned a response.
C14_Witness ==
  /\ LastIs(u2f_COMMAND_VERSION)
  /\ ~last.result.panic
  /\ last.result.response = << 85, 50, 70, 95, 86, 50, 144, 0 >>
  /\ issued # {}
  /\ signedCounters # <<>>

C19_CounterAllocatedOncePerSignature ==
  /\ counter = 16 + Len(signedCounters)
  /\ (last.message # <<>> /\ ~last.result.panic) =>
       LET signed == /\ LastIs(u2f_COMMAND_AUTHENTICATE)
                     /\ StatusWord(last.result.response) = u2f_SW_NO_ERROR
       IN  /\ last.result.calls.NewAuthenticationCounterId = IF signed THEN 1 ELSE 0
           /\ counter = last.counter + (IF signed THEN 1 ELSE 0)
  /\ last.result.panic => counter = last.counter

\* A signed AUTHENTICATE advanced the counter, and the CHECK_ONLY request
\* after it left it alone.
C19_Witness ==
  /\ counter = 17
  /\ Len(signedCounters) = 1
  /\ LastIs(u2f_COMMAND_AUTHENTICATE)
  /\ LastControl = u2f_AUTH_CONTROL_CHECK_ONLY
  /\ last.result.response = << 105, 133 >>

-----------------------------------------------------------------------------
(* Properties of decodeU2FMessage (SpecDecode).                              *)

DecodedHeader ==
  [Cla |-> decoded.message[1], Command |-> decoded.message[2],
   Param1 |-> decoded.message[3], Param2 |-> decoded.message[4]]

\* C18: decodeU2FMessage follows the decoding rules in order: a message of
\* the header alone gives an empty request and Le = 0; a message whose byte
\* after the header is not 00 fails; header || 00 || L1 gives an empty
\* request and Le = L1; header || 00 || L1 || L1 request bytes gives that
\* request, with Le = 0 when nothing follows and with the next big-endian
\* 16-bit value as Le when two more bytes follow.
C18_DecodeRules ==
  decoded.message # <<>> =>
    LET m == decoded.message
        r == decoded.result
        n == Len(m)
        gives(request, le) ==
          /\ ~r.panic
          /\ r.header = DecodedHeader
          /\ r.request = request
          /\ r.responseLength = le
    IN  /\ n = 4 => gives(<<>>, 0)
        /\ (n > 4 /\ m[5] # 0) => r.panic
        /\ (n = 7 /\ m[5] = 0) => gives(<<>>, m[6] * 256 + m[7])
        /\ (n > 7 /\ m[5] = 0) =>
             LET l1 == m[6] * 256 + m[7]
             IN  /\ n = 7 + l1 => gives(SubSeq(m, 8, n), 0)
                 /\ n = 7 + l1 + 2 =>
                      gives(SubSeq(m, 8, 7 + l1), m[n - 1] * 256 + m[n])

\* A message with a request of 256 bytes and a response length was decoded.
C18_Witness ==
  /\ Len(decoded.message) = 7 + 256 + 2
  /\ ~decoded.result.panic
  /\ Len(decoded.result.request) = 256
  /\ decoded.result.responseLength = 258

-----------------------------------------------------------------------------
(* Properties of the descriptors (SpecControl).                              *)

\* The control transfers that have returned a reply.
Replied == {id \in Ids : urbs[id].endpoint = "control" /\ urbs[id].copies = 1}

ControlUrbs == {id \in Ids : urbs[id].endpoint = "control"}

\* The reply handleControlMessage gave to a transfer.
ReplyOf(id) == handleControlMessage(ReadBE_usbSetupPacket(urbs[id].setup)).reply.bytes

\* C15: the SETUP packet is decoded with little-endian 16-bit fields: the
\* transfer with SETUP 80 06 00 01 00 00 40 00 is answered with the device
\* descriptor, whose first bytes are 12 01 10 01 00 00 00 40, and in general
\* a device GET_DESCRIPTOR selects the descriptor whose type is the second
\* wValue byte on the wire and whose index is the first.
C15_SetupLittleEndian ==
  \A id \in ControlUrbs :
    LET u == urbs[id]
    IN  /\ u.setup = << 128, 6, 0, 1, 0, 0, 64, 0 >> =>
             /\ u.trace # << "panic" >>
             /\ Len(u.before) >= 8 =>
                  SubSeq(u.buffer, 1, 8) = << 18, 1, 16, 1, 0, 0, 0, 64 >>
        /\ (u.setup[1] = 128 /\ u.setup[2] = usbRequestGetDescriptor) =>
             LET selected == getDescriptor(u.setup[4], u.setup[3])
             IN  IF selected.panic THEN u.trace = << "panic" >>
                 ELSE /\ u.trace # << "panic" >>
                      /\ u.buffer = copy(u.before, selected.reply.bytes)

\* Interface GET_DESCRIPTOR for the HID report, and device GET_DESCRIPTOR for
\* the configuration, as the device reads them.
HIDReportUrbs ==
  {id \in Replied : /\ urbs[id].setup[1] = 129
                    /\ urbs[id].setup[2] = usbHIDRequestGetDescriptor
                    /\ usbDescriptorHIDReport \in {urbs[id].setup[3], urbs[id].setup[4]}}

ConfigurationUrbs ==
  {id \in Replied : /\ urbs[id].setup[1] = 128
                    /\ urbs[id].setup[2] = usbRequestGetDescriptor
                    /\ ReplyOf(id)[2] = usbDescriptorConfiguration}

\* wDescriptorLength of the HID descriptor, bytes 26-27 of the configuration
\* block (configuration 9, interface 9, then the HID descriptor's last two).
ReportLengthDeclared(block) == block[26] + 256 * block[27]

\* C16 as stated: the HID report map is 34 bytes long and the HID descriptor
\* in the configuration block declares a report length of 34.
C16_ReportMapIs34Bytes ==
  /\ \A id \in HIDReportUrbs : Len(ReplyOf(id)) = 34
  /\ \A id \in ConfigurationUrbs : ReportLengthDeclared(ReplyOf(id)) = 34

\* C16: the HID report map returned for an interface GET_DESCRIPTOR with type
\* HID_REPORT is 30 bytes long, and the report length declared in the HID
\* descriptor inside the configuration block is 30; the buffer of the
\* transfer holds these bytes.
C16_ReportMapIs30Bytes ==
  /\ \A id \in HIDReportUrbs :
       /\ Len(ReplyOf(id)) = 30
       /\ ReplyOf(id)[30] = 192
       /\ Len(urbs[id].before) >= 30 =>
            SubSeq(urbs[id].buffer, 1, 30) = ReplyOf(id)
       /\ Len(urbs[id].before) > 30 => urbs[id].buffer[31] = urbs[id].before[31]
  /\ \A id \in ConfigurationUrbs :
       /\ Len(ReplyOf(id)) = 41
       /\ ReportLengthDeclared(ReplyOf(id)) = 30
       /\ Len(urbs[id].before) >= 27 =>
            urbs[id].buffer[26] = 30 /\ urbs[id].buffer[27] = 0

\* Both the report map and the configuration block were returned into
\* buffers of 64 bytes.
C16_Witness ==
  \E a \in HIDReportUrbs, b \in ConfigurationUrbs :
    /\ Len(urbs[a].before) = 64 /\ urbs[a].buffer[30] = 192
    /\ Len(urbs[b].before) = 64 /\ urbs[b].buffer[26] = 30

-----------------------------------------------------------------------------
(* Properties of input transfers (Spec).                                     *)

\* The input transfers whose delegate.HandleMessage has begun.
Begun == {id \in Inputs : urbs[id].pc # "spawned"}

\* C20: for input transfers submitted one after the other, onFinish is
\* called exactly once per transfer before HandleMessage returns, whether or
\* not the delegate returns, and the delegate's HandleMessage invocations
\* begin in the order in which the transfers were submitted.
C20_InputsBeginInSubmissionOrder ==
  /\ \A id \in Inputs :
       urbs[id].finished = 1 /\ urbs[id].trace = << "go", "onFinish", "return" >>
  /\ \A i, j \in Inputs : (i < j /\ j \in Begun) => i \in Begun

=============================================================================
